---------------------------- MODULE Spec2Model ----------------------------
(***************************************************************************)
(* A model of braket/default_simulator/operation_helpers.py:               *)
(*   - pauli_eigenvalues behind functools.lru_cache,                       *)
(*   - the singledispatch registries of _from_braket_instruction and       *)
(*     _get_matrix,                                                        *)
(*   - the matrix validators check_matrix_dimensions, check_unitary,       *)
(*     check_hermitian and check_CPTP, and ir_matrix_to_ndarray.           *)
(***************************************************************************)
EXTENDS Integers, Sequences, FiniteSets, TLC

VARIABLES
    cache,      \* lru_cache of pauli_eigenvalues: key -> the cached ndarray
    lru,        \* the keys of cache, least recently used first
    stack,      \* the Python call stack of pauli_eigenvalues frames
    outcome,    \* how the last top-level call of pauli_eigenvalues ended
    held,       \* keys whose cached ndarray object a caller holds a reference to
    registry,   \* _from_braket_instruction.registry: class -> registered function
    get_matrix_registry,    \* _get_matrix.registry: class -> registered function
    call        \* the last call of a dispatcher or a validator, with its result

pauliVars == <<cache, lru, stack, outcome, held>>

helperVars == <<registry, get_matrix_registry, call>>

vars == <<cache, lru, stack, outcome, held, registry, get_matrix_registry, call>>

-----------------------------------------------------------------------------
(* Bounds of the model *)

\* largest num_qubits a caller passes
MaxQubits == 3
\* smallest num_qubits a caller passes is -MinQubitsBelow
MinQubitsBelow == 1
\* the interpreter's recursion limit (sys.getrecursionlimit()), in frames
RecursionLimit == 5

\* a caller writes into the first MaxWriteIndex elements of an array it holds
MaxWriteIndex == 1
\* check_matrix_dimensions is given arrays of up to MaxNdim dimensions, each
\* of length 1..MaxSide, and up to MaxTargets target qubits
MaxNdim == 3
MaxSide == 4
MaxTargets == 2
\* check_CPTP is given lists of up to MaxKraus matrices
MaxKraus == 2

QubitArgs == (0 - MinQubitsBelow)..MaxQubits

-----------------------------------------------------------------------------
(* pauli_eigenvalues and its lru_cache *)

\* a cache of a single entry
maxsize_one == 1
\* @lru_cache() : the default maxsize of functools.lru_cache
maxsize == 128

EmptyCache == [k \in {} |-> <<>>]

NoOutcome == [arg |-> 0, status |-> "none", value |-> <<>>]

\* np.array([1, -1])
base == <<1, -1>>

\* the array as it is
negate_noop(a) == a
\* -pauli_eigenvalues(num_qubits - 1) : a new array, element-wise negated
negate(a) == [i \in 1..Len(a) |-> 0 - a[i]]

\* np.concatenate([a, b]) : a new array
concatenate(a, b) == a \o b

\* lru_cache, a hit: the key becomes the most recently used
Touch(l, key) == SelectSeq(l, LAMBDA k : k # key) \o <<key>>

\* lru_cache, after the wrapped function returned: the result is stored, and
\* the least recently used entry is dropped when the cache is full
StoredCache(c, l, key, val) ==
    IF key \in DOMAIN c THEN c
    ELSE IF Len(l) >= maxsize
         THEN [k \in ((DOMAIN c) \ {l[1]}) \cup {key} |-> IF k = key THEN val ELSE c[k]]
         ELSE [k \in (DOMAIN c) \cup {key} |-> IF k = key THEN val ELSE c[k]]

StoredLru(c, l, key) ==
    IF key \in DOMAIN c THEN l
    ELSE IF Len(l) >= maxsize THEN Tail(l) \o <<key>>
         ELSE l \o <<key>>

Frame(n) == [n |-> n, got |-> <<>>]

Top == stack[Len(stack)]

Pop(s) == SubSeq(s, 1, Len(s) - 1)

\* a frame returns val: the wrapper stores it, and the caller's frame (or the
\* top-level caller) receives it
Return(val) ==
    LET key == Top.n
        c2  == StoredCache(cache, lru, key, val)
        l2  == StoredLru(cache, lru, key)
        rest == Pop(stack)
    IN /\ cache' = c2
       /\ lru' = l2
       /\ IF rest = <<>>
          THEN /\ stack' = <<>>
               /\ outcome' = [arg |-> key, status |-> "returned", value |-> val]
               /\ held' = (held \cap DOMAIN c2) \cup ({key} \cap DOMAIN c2)
          ELSE /\ stack' = [rest EXCEPT ![Len(rest)].got = Append(@, val)]
               /\ outcome' = outcome
               /\ held' = held \cap DOMAIN c2

\* a caller calls pauli_eigenvalues(n) and the cache holds n
CallHit(n) ==
    /\ stack = <<>>
    /\ n \in DOMAIN cache
    /\ lru' = Touch(lru, n)
    /\ outcome' = [arg |-> n, status |-> "returned", value |-> cache[n]]
    /\ held' = held \cup {n}
    /\ UNCHANGED <<cache, stack>>
    /\ UNCHANGED helperVars

\* a caller calls pauli_eigenvalues(n) and the cache misses: the body runs
CallMiss(n) ==
    /\ stack = <<>>
    /\ n \notin DOMAIN cache
    /\ stack' = <<Frame(n)>>
    /\ outcome' = NoOutcome
    /\ UNCHANGED <<cache, lru, held>>
    /\ UNCHANGED helperVars

\* if num_qubits == 1: return np.array([1, -1])
EvalBase ==
    /\ stack # <<>>
    /\ Top.n = 1
    /\ Return(base)
    /\ UNCHANGED helperVars

\* pauli_eigenvalues(num_qubits - 1), answered by the cache
EvalRecurseHit ==
    /\ stack # <<>>
    /\ Top.n # 1
    /\ Len(Top.got) < 2
    /\ (Top.n - 1) \in DOMAIN cache
    /\ stack' = [stack EXCEPT ![Len(stack)].got = Append(@, cache[Top.n - 1])]
    /\ lru' = Touch(lru, Top.n - 1)
    /\ UNCHANGED <<cache, outcome, held>>
    /\ UNCHANGED helperVars

\* pauli_eigenvalues(num_qubits - 1), a miss: a new frame
EvalRecurseMiss ==
    /\ stack # <<>>
    /\ Top.n # 1
    /\ Len(Top.got) < 2
    /\ (Top.n - 1) \notin DOMAIN cache
    /\ Len(stack) < RecursionLimit
    /\ stack' = Append(stack, Frame(Top.n - 1))
    /\ UNCHANGED <<cache, lru, outcome, held>>
    /\ UNCHANGED helperVars

\* the same call with the stack at the recursion limit: RecursionError unwinds
\* every frame, and nothing is stored
EvalOverflow ==
    /\ stack # <<>>
    /\ Top.n # 1
    /\ Len(Top.got) < 2
    /\ (Top.n - 1) \notin DOMAIN cache
    /\ Len(stack) >= RecursionLimit
    /\ stack' = <<>>
    /\ outcome' = [arg |-> stack[1].n, status |-> "RecursionError", value |-> <<>>]
    /\ UNCHANGED <<cache, lru, held>>
    /\ UNCHANGED helperVars

\* return np.concatenate([pauli_eigenvalues(n - 1), -pauli_eigenvalues(n - 1)])
EvalConcat ==
    /\ stack # <<>>
    /\ Top.n # 1
    /\ Len(Top.got) = 2
    /\ Return(concatenate(Top.got[1], negate(Top.got[2])))
    /\ UNCHANGED helperVars

\* a caller writes into an ndarray it got from pauli_eigenvalues: the array is
\* the object the cache holds
CallerModify(n, i) ==
    /\ stack = <<>>
    /\ n \in held
    /\ n \in DOMAIN cache
    /\ i \in 1..Len(cache[n])
    /\ cache' = [cache EXCEPT ![n][i] = 0 - @]
    /\ UNCHANGED <<lru, stack, outcome, held>>
    /\ UNCHANGED helperVars

-----------------------------------------------------------------------------
(* Numbers and ndarrays *)

\* Numbers are fixed point.  A matrix entry is a multiple of 1/Unit, a
\* product of two entries a multiple of 1/(Unit*Unit).  Every operator that
\* compares takes `one`, the number of grid units that make 1.0.
Unit == 10 ^ 3

Abs(x) == IF x < 0 THEN 0 - x ELSE x

Max(x, y) == IF x < y THEN y ELSE x

\* complex(re, im)
Complex(re, im) == [re |-> re, im |-> im]

CZero == Complex(0, 0)

CAdd(a, b) == Complex(a.re + b.re, a.im + b.im)

CSub(a, b) == Complex(a.re - b.re, a.im - b.im)

CMul(a, b) == Complex(a.re * b.re - a.im * b.im, a.re * b.im + a.im * b.re)

Conj(a) == Complex(a.re, 0 - a.im)

\* bounds of the modulus |z| that integers can state: they agree when z is
\* real or imaginary
AbsLo(z) == Max(Abs(z.re), Abs(z.im))

AbsHi(z) == Abs(z.re) + Abs(z.im)

RECURSIVE Product(_)
Product(shape) == IF shape = <<>> THEN 1 ELSE Head(shape) * Product(Tail(shape))

\* an np.ndarray: its shape and its elements in row-major order
NdArray(shape, data) == [type |-> "ndarray", shape |-> shape, data |-> data]

\* the Python int 0, which sum() starts from: it has no attribute `shape`
PyZero == [type |-> "int", shape |-> <<>>, data |-> <<>>]

\* matrix[i][j] of a two-dimensional array
At(m, i, j) == m.data[(i - 1) * m.shape[2] + j]

Matrix(rows, cols, f(_, _)) ==
    NdArray(<<rows, cols>>,
            [k \in 1..(rows * cols) |-> f(((k - 1) \div cols) + 1, ((k - 1) % cols) + 1)])

\* matrix.T.conj() / matrix.T.conjugate()
ConjTranspose(m) ==
    LET f(i, j) == Conj(At(m, j, i)) IN Matrix(m.shape[2], m.shape[1], f)

RECURSIVE SumTo(_, _)
SumTo(f, n) == IF n = 0 THEN CZero ELSE CAdd(SumTo(f, n - 1), f[n])

\* np.dot(a, b) / a.dot(b) of two-dimensional arrays
dot(a, b) ==
    LET f(i, j) == SumTo([k \in 1..a.shape[2] |-> CMul(At(a, i, k), At(b, k, j))],
                         a.shape[2])
    IN Matrix(a.shape[1], b.shape[2], f)

\* np.eye(n, m), on the grid where `one` units make 1.0
eye(n, m, one) ==
    LET f(i, j) == IF i = j THEN Complex(one, 0) ELSE CZero IN Matrix(n, m, f)

\* a + b of two arrays of one shape; int 0 + array is the array
Add(a, b) ==
    IF a.type = "int" THEN b
    ELSE NdArray(a.shape, [k \in 1..Len(a.data) |-> CAdd(a.data[k], b.data[k])])

RECURSIVE sum(_)
\* the builtin sum(list): 0 + list[0] + list[1] + ...
sum(list) ==
    IF list = <<>> THEN PyZero
    ELSE Add(sum(SubSeq(list, 1, Len(list) - 1)), list[Len(list)])

\* np.allclose defaults: rtol = 1e-05, atol = 1e-08, as 1/rtol and 1/atol
RtolInv == 10 ^ 5

AtolInv == 10 ^ 8

\* np.isclose of two numbers: abs(a - b) <= atol + rtol * abs(b).  With a
\* and b in grid units this is RtolInv * |a - b| <= one / (AtolInv / RtolInv)
\* + |b|.  The two cases decide it from the integer bounds of the moduli; the
\* operator is undefined where they do not.
isclose(a, b, one) ==
    LET d == CSub(a, b)
        c == one \div (AtolInv \div RtolInv)
    IN CASE AbsHi(d) <= (c + AbsLo(b)) \div RtolInv -> TRUE
         [] AbsLo(d) > (c + AbsHi(b)) \div RtolInv -> FALSE

\* np.allclose(a, b) of two arrays of one shape
allclose(a, b, one) ==
    \A k \in 1..Len(a.data) : isclose(a.data[k], b.data[k], one)

-----------------------------------------------------------------------------
(* The validators *)

\* what a call hands back: the Python value, as its kind and its items (an
\* ndarray or an object is one item, a list is its elements)
NoneValue == [py |-> "None", items |-> <<>>]

ArrayValue(m) == [py |-> "ndarray", items |-> <<m>>]

ListValue(list) == [py |-> "list", items |-> list]

ObjectValue(obj) == [py |-> "object", items |-> <<obj>>]

None == [exc |-> "none", msg |-> "", value |-> NoneValue]

Raise(exc, msg) == [exc |-> exc, msg |-> msg, value |-> NoneValue]

Returns(v) == [exc |-> "none", msg |-> "", value |-> v]

\* the same with 2 * len(targets) for the dimension
check_matrix_dimensions_linear(matrix, targets) ==
    IF Len(matrix.shape) # 2 \/ matrix.shape[1] # matrix.shape[2]
    THEN Raise("ValueError", "is not a two-dimensional square matrix")
    ELSE IF 2 * Len(targets) # matrix.shape[1]
         THEN Raise("ValueError", "operates on space of dimension")
         ELSE None

check_matrix_dimensions(matrix, targets) ==
    IF Len(matrix.shape) # 2 \/ matrix.shape[1] # matrix.shape[2]
    THEN Raise("ValueError", "is not a two-dimensional square matrix")
    ELSE IF 2 ^ Len(targets) # matrix.shape[1]
         THEN Raise("ValueError", "operates on space of dimension")
         ELSE None

\* the same with matrix.dot(matrix)
check_unitary_no_transpose(matrix) ==
    IF ~ allclose(eye(matrix.shape[1], matrix.shape[1], Unit * Unit),
                  dot(matrix, matrix), Unit * Unit)
    THEN Raise("ValueError", "is not unitary")
    ELSE None

\* len(matrix) is matrix.shape[0]
check_unitary(matrix) ==
    IF ~ allclose(eye(matrix.shape[1], matrix.shape[1], Unit * Unit),
                  dot(matrix, ConjTranspose(matrix)), Unit * Unit)
    THEN Raise("ValueError", "is not unitary")
    ELSE None

check_hermitian(matrix) ==
    IF ~ allclose(matrix, ConjTranspose(matrix), Unit)
    THEN Raise("ValueError", "is not Hermitian")
    ELSE None

\* the same with np.dot(matrix, matrix.T.conjugate())
check_CPTP_swapped(matrices) ==
    LET E == sum([k \in 1..Len(matrices) |-> dot(matrices[k], ConjTranspose(matrices[k]))])
    IN IF E.type # "ndarray" THEN Raise("AttributeError", "'int' object has no attribute 'shape'")
       ELSE IF ~ allclose(E, eye(E.shape[1], E.shape[2], Unit * Unit), Unit * Unit)
            THEN Raise("ValueError", "does not satisfy CPTP")
            ELSE None

\* E.shape of the int that sum([]) returns raises AttributeError
check_CPTP(matrices) ==
    LET E == sum([k \in 1..Len(matrices) |-> dot(ConjTranspose(matrices[k]), matrices[k])])
    IN IF E.type # "ndarray" THEN Raise("AttributeError", "'int' object has no attribute 'shape'")
       ELSE IF ~ allclose(E, eye(E.shape[1], E.shape[2], Unit * Unit), Unit * Unit)
            THEN Raise("ValueError", "does not satisfy CPTP")
            ELSE None

\* the inputs of the validators
Shapes == UNION {[1..k -> 1..MaxSide] : k \in 0..MaxNdim}

Zeros(shape) == NdArray(shape, [k \in 1..Product(shape) |-> CZero])

TargetTuples == {[i \in 1..k |-> i - 1] : k \in 0..MaxTargets}

\* 0, 1, -1, i and 0.001
Entries == {CZero, Complex(Unit, 0), Complex(0 - Unit, 0), Complex(0, Unit), Complex(1, 0)}

Matrices2 == {NdArray(<<2, 2>>, d) : d \in [1..4 -> Entries]}

KrausEntries == {CZero, Complex(Unit, 0), Complex(0, Unit), Complex(1, 0)}

Diag(a, b) == NdArray(<<2, 2>>, <<a, CZero, CZero, b>>)

AntiDiag(a, b) == NdArray(<<2, 2>>, <<CZero, a, b, CZero>>)

KrausMatrices ==
    {Diag(a, b) : a, b \in KrausEntries} \cup {AntiDiag(a, b) : a, b \in KrausEntries}

KrausLists == UNION {[1..k -> KrausMatrices] : k \in 0..MaxKraus}

NoCall == [fn |-> "none", args |-> <<>>, result |-> None]

Called(fn, args, result) == [fn |-> fn, args |-> args, result |-> result]

\* a call that has not run yet
Pending == [exc |-> "pending", msg |-> "", value |-> NoneValue]

ValidatorCalls ==
    {Called("check_matrix_dimensions", <<Zeros(shape), targets>>, Pending) :
        shape \in Shapes, targets \in TargetTuples}
    \cup {Called("check_unitary", <<matrix>>, Pending) : matrix \in Matrices2}
    \cup {Called("check_hermitian", <<matrix>>, Pending) : matrix \in Matrices2}
    \cup {Called("check_CPTP", <<matrices>>, Pending) : matrices \in KrausLists}

CheckMatrixDimensions ==
    /\ call.fn = "check_matrix_dimensions"
    /\ call.result = Pending
    /\ call' = [call EXCEPT !.result = check_matrix_dimensions(call.args[1], call.args[2])]
    /\ UNCHANGED <<pauliVars, registry, get_matrix_registry>>

CheckUnitary ==
    /\ call.fn = "check_unitary"
    /\ call.result = Pending
    /\ call' = [call EXCEPT !.result = check_unitary(call.args[1])]
    /\ UNCHANGED <<pauliVars, registry, get_matrix_registry>>

CheckHermitian ==
    /\ call.fn = "check_hermitian"
    /\ call.result = Pending
    /\ call' = [call EXCEPT !.result = check_hermitian(call.args[1])]
    /\ UNCHANGED <<pauliVars, registry, get_matrix_registry>>

CheckCPTP ==
    /\ call.fn = "check_CPTP"
    /\ call.result = Pending
    /\ call' = [call EXCEPT !.result = check_CPTP(call.args[1])]
    /\ UNCHANGED <<pauliVars, registry, get_matrix_registry>>

ValidatorsNext ==
    \/ CheckMatrixDimensions
    \/ CheckUnitary
    \/ CheckHermitian
    \/ CheckCPTP

-----------------------------------------------------------------------------
(* The dispatchers *)

\* the classes of the values the dispatchers are given, each with its base
\* class: the instruction classes derive from object, the operations from
\* one of GateOperation, KrausOperation and Observable
InstructionKinds == {"KindA", "KindB", "KindC"}

OperationClasses == {"SomeGate", "SomeKraus", "SomeObservable"}

OtherClasses == {"int", "str"}

Base(cls) ==
    CASE cls = "SomeGate" -> "GateOperation"
      [] cls = "SomeKraus" -> "KrausOperation"
      [] cls = "SomeObservable" -> "Observable"
      [] OTHER -> "object"

RECURSIVE Mro(_)
\* cls.__mro__
Mro(cls) == IF cls = "object" THEN <<"object">> ELSE <<cls>> \o Mro(Base(cls))

\* singledispatch's dispatch(cls): the function registered for the first
\* class of cls.__mro__ that has one
dispatch(reg, cls) ==
    LET mro == Mro(cls)
        first == CHOOSE i \in 1..Len(mro) :
                    /\ mro[i] \in DOMAIN reg
                    /\ \A k \in 1..(i - 1) : mro[k] \notin DOMAIN reg
    IN reg[mro[first]]

\* a registry that keeps only the default and the last registration
register_forgetful(reg, cls, func) ==
    [c \in {"object", cls} |-> IF c = cls THEN func ELSE reg[c]]

\* singledispatch's register(cls, func)
register(reg, cls, func) ==
    [c \in (DOMAIN reg) \cup {cls} |-> IF c = cls THEN func ELSE reg[c]]

\* @singledispatch: the undecorated function is registered for `object`
InitialRegistry == [t \in {"object"} |-> "raise"]

\* @singledispatch and the three @_get_matrix.register
InitialGetMatrixRegistry ==
    register(register(register([t \in {"object"} |-> "raise"],
                               "GateOperation", "matrix"),
                      "KrausOperation", "matrices"),
             "Observable", "diagonalizing_matrix")

\* np.array([[complex(element[0], element[1]) for element in row] for row in matrix])
ir_matrix_to_ndarray(matrix) ==
    LET f(i, j) == Complex(matrix[i][j][1], matrix[i][j][2])
    IN Matrix(Len(matrix), Len(matrix[1]), f)

GateOperation(targets, matrix) ==
    [cls |-> "SomeGate", targets |-> targets, matrix |-> matrix]

KrausOperation(targets, matrices) ==
    [cls |-> "SomeKraus", targets |-> targets, matrices |-> matrices]

Observable(targets, matrix) ==
    [cls |-> "SomeObservable", targets |-> targets, diagonalizing_matrix |-> matrix]

RECURSIVE FirstError(_)
\* the first result of a sequence of checks that is not None, or None
FirstError(results) ==
    IF results = <<>> THEN None
    ELSE IF Head(results) # None THEN Head(results) ELSE FirstError(Tail(results))

\* a registered constructor of a gate: decodes the instruction's matrix,
\* checks its dimensions and that it is unitary, and builds the operation
GateConstructor(instruction) ==
    LET matrix == ir_matrix_to_ndarray(instruction.matrices[1])
        dims == check_matrix_dimensions(matrix, instruction.targets)
    IN IF dims # None THEN dims
       ELSE IF check_unitary(matrix) # None THEN check_unitary(matrix)
            ELSE Returns(ObjectValue(GateOperation(instruction.targets, matrix)))

\* a registered constructor of a Kraus channel: decodes the matrices, checks
\* the dimensions of each and CPTP of the list, and builds the operation
KrausConstructor(instruction) ==
    LET matrices == [k \in 1..Len(instruction.matrices) |->
                        ir_matrix_to_ndarray(instruction.matrices[k])]
        dims == FirstError([k \in 1..Len(matrices) |->
                               check_matrix_dimensions(matrices[k], instruction.targets)])
    IN IF dims # None THEN dims
       ELSE IF check_CPTP(matrices) # None THEN check_CPTP(matrices)
            ELSE Returns(ObjectValue(KrausOperation(instruction.targets, matrices)))

Constructors == {"GateConstructor", "KrausConstructor"}

\* the function a class is registered with, applied
Apply(func, arg) ==
    CASE func = "GateConstructor" -> GateConstructor(arg)
      [] func = "KrausConstructor" -> KrausConstructor(arg)
      [] func = "matrix" -> Returns(ArrayValue(arg.matrix))
      [] func = "matrices" -> Returns(ListValue(arg.matrices))
      [] func = "diagonalizing_matrix" -> Returns(ArrayValue(arg.diagonalizing_matrix))
      [] func = "extension" -> Returns(ObjectValue(arg))

\* _from_braket_instruction, as registered for object, raises
from_braket_instruction(reg, instruction) ==
    LET func == dispatch(reg, instruction.cls)
    IN IF func = "raise" THEN Raise("ValueError", "Instruction not recognized")
       ELSE Apply(func, instruction)

\* _get_matrix, as registered for object, raises
get_matrix(reg, operation) ==
    LET func == dispatch(reg, operation.cls)
    IN IF func = "raise" THEN Raise("ValueError", "Unrecognized operation")
       ELSE Apply(func, operation)

\* IR matrices: rows of [real, imaginary] pairs, in units of 1/Unit
IRIdentity == << <<<<Unit, 0>>, <<0, 0>>>>, <<<<0, 0>>, <<Unit, 0>>>> >>

IRPauliX == << <<<<0, 0>>, <<Unit, 0>>>>, <<<<Unit, 0>>, <<0, 0>>>> >>

IRPhase == << <<<<0, Unit>>, <<0, 0>>>>, <<<<0, 0>>, <<Unit, 0>>>> >>

IRShear == << <<<<Unit, 0>>, <<Unit, 0>>>>, <<<<0, 0>>, <<Unit, 0>>>> >>

IRP0 == << <<<<Unit, 0>>, <<0, 0>>>>, <<<<0, 0>>, <<0, 0>>>> >>

IRP1 == << <<<<0, 0>>, <<0, 0>>>>, <<<<0, 0>>, <<Unit, 0>>>> >>

IRWide == << <<<<Unit, 0>>, <<0, 0>>, <<0, 0>>>>, <<<<0, 0>>, <<Unit, 0>>, <<0, 0>>>> >>

IRIdentity4 ==
    [i \in 1..4 |-> [j \in 1..4 |-> IF i = j THEN <<Unit, 0>> ELSE <<0, 0>>]]

IRMatrices == {IRIdentity, IRPauliX, IRPhase, IRShear, IRP0, IRP1, IRWide, IRIdentity4}

\* the matrices of an instruction: one matrix, or a list of up to MaxKraus
IRMatrixLists ==
    {<<m>> : m \in IRMatrices}
    \cup UNION {[1..k -> {IRIdentity, IRP0, IRP1}] : k \in 2..MaxKraus}

\* an instruction: its class, its target qubits and its matrices
Instructions ==
    {[cls |-> kind, targets |-> targets, matrices |-> matrices] :
        kind \in InstructionKinds,
        targets \in TargetTuples \ {<<>>},
        matrices \in IRMatrixLists}

\* values get_matrix is called with
OperationValues ==
    {GateOperation(<<0>>, ir_matrix_to_ndarray(m)) : m \in {IRIdentity, IRPauliX}}
    \cup {KrausOperation(<<0>>, <<ir_matrix_to_ndarray(IRP0), ir_matrix_to_ndarray(IRP1)>>),
          KrausOperation(<<0>>, <<ir_matrix_to_ndarray(IRIdentity)>>)}
    \cup {Observable(<<0>>, ir_matrix_to_ndarray(m)) : m \in {IRIdentity, IRPauliX}}

OtherValues == {[cls |-> c] : c \in OtherClasses}

Idle == call = NoCall

\* @_from_braket_instruction.register(kind) on a constructor
Register(kind, func) ==
    /\ Idle
    /\ registry' = register(registry, kind, func)
    /\ UNCHANGED <<pauliVars, get_matrix_registry, call>>

FromBraketInstruction(instruction) ==
    /\ Idle
    /\ call' = Called("from_braket_instruction", <<instruction>>,
                      from_braket_instruction(registry, instruction))
    /\ UNCHANGED <<pauliVars, registry, get_matrix_registry>>

\* @_get_matrix.register(cls) on a new function
RegisterGetMatrix(cls) ==
    /\ Idle
    /\ get_matrix_registry' = register(get_matrix_registry, cls, "extension")
    /\ UNCHANGED <<pauliVars, registry, call>>

GetMatrix(operation) ==
    /\ Idle
    /\ call' = Called("get_matrix", <<operation>>,
                      get_matrix(get_matrix_registry, operation))
    /\ UNCHANGED <<pauliVars, registry, get_matrix_registry>>

\* the caller takes the result
ReturnToCaller ==
    /\ ~ Idle
    /\ call' = NoCall
    /\ UNCHANGED <<pauliVars, registry, get_matrix_registry>>

DispatchNext ==
    \/ \E kind \in InstructionKinds : \E func \in Constructors : Register(kind, func)
    \/ \E instruction \in Instructions : FromBraketInstruction(instruction)
    \/ ReturnToCaller

AccessorNext ==
    \/ \E cls \in OtherClasses \cup OperationClasses : RegisterGetMatrix(cls)
    \/ \E operation \in OperationValues \cup OtherValues : GetMatrix(operation)
    \/ ReturnToCaller

RegistryInit ==
    /\ registry = InitialRegistry
    /\ get_matrix_registry = InitialGetMatrixRegistry

PauliInit ==
    /\ cache = EmptyCache
    /\ lru = <<>>
    /\ stack = <<>>
    /\ outcome = NoOutcome
    /\ held = {}

Init == PauliInit /\ RegistryInit /\ call = NoCall

ValidatorsInit == PauliInit /\ RegistryInit /\ call \in ValidatorCalls

PauliNext ==
    \/ \E n \in QubitArgs : CallHit(n)
    \/ \E n \in QubitArgs : CallMiss(n)
    \/ EvalBase
    \/ EvalRecurseHit
    \/ EvalRecurseMiss
    \/ EvalOverflow
    \/ EvalConcat

\* callers only read the arrays they get
Spec == Init /\ [][PauliNext]_vars

AliasNext ==
    \/ PauliNext
    \/ \E n \in QubitArgs : \E i \in 1..MaxWriteIndex : CallerModify(n, i)

\* callers may also write into the arrays they get
SpecAlias == Init /\ [][AliasNext]_vars

\* registrations and calls of from_braket_instruction
SpecDispatch == Init /\ [][DispatchNext]_vars

\* registrations and calls of get_matrix
SpecAccessor == Init /\ [][AccessorNext]_vars

\* the validators, called with every input of the bounded sets
SpecValidators == ValidatorsInit /\ [][ValidatorsNext]_vars

-----------------------------------------------------------------------------
(* Claims about pauli_eigenvalues *)

RECURSIVE IsSpectrum(_, _)
\* s is [1, -1] for n = 1, and for n > 1 the spectrum of n - 1 followed by its
\* element-wise negation
IsSpectrum(n, s) ==
    IF n = 1 THEN s = <<1, -1>>
    ELSE /\ Len(s) = 2 ^ n
         /\ IsSpectrum(n - 1, SubSeq(s, 1, 2 ^ (n - 1)))
         /\ \A i \in 1..(2 ^ (n - 1)) : s[2 ^ (n - 1) + i] = 0 - s[i]

\* C1: for every n >= 1 pauli_eigenvalues(n) returns a sequence of length 2^n
\* of +1 and -1, [1, -1] for n = 1 and otherwise the sequence of n - 1
\* followed by its negation; the same holds of every cached table.
C1_PauliEigenvalues ==
    /\ \A n \in DOMAIN cache :
          /\ n >= 1
          /\ Len(cache[n]) = 2 ^ n
          /\ \A i \in 1..Len(cache[n]) : cache[n][i] \in {1, -1}
          /\ IsSpectrum(n, cache[n])
          /\ (n > 1 /\ (n - 1) \in DOMAIN cache
                => SubSeq(cache[n], 1, 2 ^ (n - 1)) = cache[n - 1])
    /\ (outcome.status # "none" /\ outcome.arg >= 1
          => /\ outcome.status = "returned"
             /\ Len(outcome.value) = 2 ^ outcome.arg
             /\ \A i \in 1..Len(outcome.value) : outcome.value[i] \in {1, -1}
             /\ IsSpectrum(outcome.arg, outcome.value))

C1_Witness ==
    /\ outcome.status = "returned"
    /\ outcome.arg = MaxQubits
    /\ outcome.arg > 1
    /\ Len(outcome.value) = 2 ^ MaxQubits

\* C6 (as claimed): a call with num_qubits < 1 ends with the validation error
\* InvalidArgument (a ValueError), returns nothing and caches nothing.
C6_InvalidArgument ==
    (stack = <<>> /\ outcome.status # "none" /\ outcome.arg < 1)
        => /\ outcome.status = "ValueError"
           /\ \A n \in DOMAIN cache : n >= 1

C8_Idempotent ==
    [][ /\ \A n \in (DOMAIN cache) \cap (DOMAIN cache') : cache'[n] = cache[n]
        /\ (outcome.status = "returned" /\ outcome'.status = "returned"
               /\ outcome'.arg = outcome.arg
              => outcome'.value = outcome.value) ]_vars

-----------------------------------------------------------------------------
(* Claims about the validators *)

InvalidShape == Raise("ValueError", "is not a two-dimensional square matrix")

DimensionMismatch == Raise("ValueError", "operates on space of dimension")

NotCPTP == Raise("ValueError", "does not satisfy CPTP")

\* C4: check_matrix_dimensions raises InvalidShape exactly when the matrix is
\* not two-dimensional and square, whatever the targets; for a square matrix
\* it raises the different error DimensionMismatch exactly when the side is
\* not 2^len(targets); otherwise it returns None.
C4_MatrixDimensions ==
    (call.fn = "check_matrix_dimensions" /\ call.result # Pending) =>
        LET shape == call.args[1].shape
            targets == call.args[2]
            square == Len(shape) = 2 /\ shape[1] = shape[2]
        IN /\ InvalidShape # DimensionMismatch
           /\ (call.result = InvalidShape) <=> ~ square
           /\ (call.result = DimensionMismatch) <=> (square /\ shape[1] # 2 ^ Len(targets))
           /\ (call.result = None) <=> (square /\ shape[1] = 2 ^ Len(targets))

\* a 4x4 matrix with one target
C4_Witness ==
    /\ call.fn = "check_matrix_dimensions"
    /\ call.args[1].shape = <<4, 4>>
    /\ Len(call.args[2]) = 1
    /\ call.result = DimensionMismatch

\* entry (i, j) of the sum over the list of (conjugate transpose of M) times M
KrausSumAt(matrices, i, j) ==
    SumTo([k \in 1..Len(matrices) |->
              SumTo([r \in 1..matrices[k].shape[1] |->
                        CMul(Conj(At(matrices[k], r, i)), At(matrices[k], r, j))],
                    matrices[k].shape[1])],
          Len(matrices))

Side(matrices) == matrices[1].shape[2]

SumIsIdentity(matrices) ==
    \A i, j \in 1..Side(matrices) :
        KrausSumAt(matrices, i, j) = (IF i = j THEN Complex(Unit * Unit, 0) ELSE CZero)

\* every entry of the sum is within atol + rtol * |identity entry| of the
\* identity's: 1e-8 off the diagonal, 1e-8 + 1e-5 on it.  In grid units the
\* two tolerances are 0.01 and 10.01, so that a difference of integer parts
\* is within them exactly when its squared modulus is at most 0 and 100
SumIsCloseToIdentity(matrices) ==
    \A i, j \in 1..Side(matrices) :
        LET d == CSub(KrausSumAt(matrices, i, j),
                      IF i = j THEN Complex(Unit * Unit, 0) ELSE CZero)
            tol == IF i = j
                   THEN (Unit * Unit + (AtolInv \div RtolInv) * (Unit * Unit)) \div AtolInv
                   ELSE (Unit * Unit) \div AtolInv
        IN /\ Abs(d.re) <= tol
           /\ Abs(d.im) <= tol
           /\ d.re * d.re + d.im * d.im <= tol * tol

Permuted(list) ==
    {[k \in 1..Len(list) |-> list[p[k]]] :
        p \in {q \in [1..Len(list) -> 1..Len(list)] :
                  \A x, y \in 1..Len(list) : q[x] = q[y] => x = y}}

P0 == Diag(Complex(Unit, 0), CZero)

P1 == Diag(CZero, Complex(Unit, 0))

\* C5 (as claimed): for a non-empty list, check_CPTP returns None exactly when
\* the sum of M^H M equals the identity, and raises NotCPTP otherwise; the
\* order of the list does not matter.
C5_ExactIdentity ==
    (call.fn = "check_CPTP" /\ call.result # Pending /\ call.args[1] # <<>>) =>
        /\ (call.result = None) <=> SumIsIdentity(call.args[1])
        /\ call.result \in {None, NotCPTP}
        /\ \A other \in Permuted(call.args[1]) : check_CPTP(other) = call.result

\* C5 (amended): for a non-empty list, check_CPTP returns None exactly when
\* every entry of the sum of M^H M is within the allclose tolerance
\* (1e-8 + 1e-5 * |identity entry|) of the identity, and raises NotCPTP
\* otherwise; diag(1,0) alone and diag(0,1) alone are rejected; the order of
\* the list does not matter.
C5_CloseToIdentity ==
    (call.fn = "check_CPTP" /\ call.result # Pending /\ call.args[1] # <<>>) =>
        /\ (call.result = None) <=> SumIsCloseToIdentity(call.args[1])
        /\ call.result \in {None, NotCPTP}
        /\ \A other \in Permuted(call.args[1]) : check_CPTP(other) = call.result
        /\ (call.args[1] \in {<<P0>>, <<P1>>} => call.result = NotCPTP)

\* diag(1,0) with diag(0,1) passes
C5_Witness ==
    /\ call.fn = "check_CPTP"
    /\ call.args[1] = <<P0, P1>>
    /\ call.result = None

\* C10 (as claimed): a validator either returns None or raises one validation
\* error (a ValueError); check_CPTP of the empty list raises a validation
\* error.
C10_ValidationErrorsOnly ==
    (/\ call.fn \in {"check_matrix_dimensions", "check_unitary", "check_hermitian", "check_CPTP"}
     /\ call.result # Pending) =>
        /\ call.result.exc \in {"none", "ValueError"}
        /\ (call.fn = "check_CPTP" /\ call.args[1] = <<>> => call.result.exc = "ValueError")

-----------------------------------------------------------------------------
(* Claims about the dispatchers *)

UnrecognizedInstruction == Raise("ValueError", "Instruction not recognized")

UnrecognizedOperation == Raise("ValueError", "Unrecognized operation")

Registered(reg) == (DOMAIN reg) \ {"object"}

\* C2: from_braket_instruction raises UnrecognizedInstruction when no
\* constructor is registered for the instruction's class and otherwise hands
\* back what the constructor registered for that class produces; registering
\* a new class leaves every registered class registered, with the same outcome
\* for each of its instructions.
C2_Dispatch ==
    [][ /\ (call.fn = "none" /\ call'.fn = "from_braket_instruction") =>
              LET instruction == call'.args[1]
              IN IF instruction.cls \in Registered(registry)
                 THEN call'.result = Apply(registry[instruction.cls], instruction)
                 ELSE call'.result = UnrecognizedInstruction
        /\ (Registered(registry') # Registered(registry)) =>
              \A kind \in Registered(registry) :
                  /\ kind \in Registered(registry')
                  /\ \A instruction \in Instructions :
                        instruction.cls = kind =>
                            from_braket_instruction(registry', instruction)
                                = from_braket_instruction(registry, instruction) ]_vars

\* an instruction of one of several registered classes is turned into an operation
C2_Witness ==
    /\ call.fn = "from_braket_instruction"
    /\ Cardinality(Registered(registry)) >= 2
    /\ call.args[1].cls \in Registered(registry)
    /\ call.result.exc = "none"
    /\ call.result.value.py = "object"

\* C3 (as claimed): get_matrix returns the matrix of a gate, the list of
\* matrices of a Kraus channel and the diagonalizing matrix of an observable,
\* and raises UnrecognizedOperation for every other value, whatever has been
\* registered.
C3_Closed ==
    call.fn = "get_matrix" =>
        LET operation == call.args[1]
        IN CASE Base(operation.cls) = "GateOperation" ->
                    call.result = Returns(ArrayValue(operation.matrix))
             [] Base(operation.cls) = "KrausOperation" ->
                    call.result = Returns(ListValue(operation.matrices))
             [] Base(operation.cls) = "Observable" ->
                    call.result = Returns(ArrayValue(operation.diagonalizing_matrix))
             [] OTHER -> call.result = UnrecognizedOperation

SquareOfSide(matrix, side) == matrix.shape = <<side, side>>

\* every row of the matrix has norm 1 and is orthogonal to the others, within
\* the allclose tolerance
RowsOrthonormal(matrix) ==
    \A i, j \in 1..matrix.shape[1] :
        isclose(IF i = j THEN Complex(Unit * Unit, 0) ELSE CZero,
                SumTo([k \in 1..matrix.shape[2] |->
                          CMul(At(matrix, i, k), Conj(At(matrix, j, k)))],
                      matrix.shape[2]),
                Unit * Unit)

WellFormedGate(targets, matrix) ==
    /\ SquareOfSide(matrix, 2 ^ Len(targets))
    /\ RowsOrthonormal(matrix)

WellFormedKraus(targets, matrices) ==
    /\ \A k \in 1..Len(matrices) : SquareOfSide(matrices[k], 2 ^ Len(targets))
    /\ SumIsCloseToIdentity(matrices)

Decoded(instruction) ==
    [k \in 1..Len(instruction.matrices) |-> ir_matrix_to_ndarray(instruction.matrices[k])]

=============================================================================
